---- MODULE Spec2Model ----
(***************************************************************************)
(* Model of the goal orchestrator of the study platform                    *)
(* (python_backend/agents/orchestrator.py): AgentOrchestrator.run is an    *)
(* async generator; every action of the run is the code that runs between  *)
(* two suspension points (a yield or an await) of that generator.          *)
(* The review scheduler (python_backend/services/sm2.py) is modelled on    *)
(* the flashcard table, with its own specification.  Further              *)
(* specifications cover the agent actions called on their own, the         *)
(* /ws/agent handler that streams a run to a client, and two runs that     *)
(* share the event loop.                                                   *)
(***************************************************************************)
EXTENDS Integers, Sequences, FiniteSets, TLC

VARIABLES pc, events, llm, plan, i, invoked, inflight, user_id, api_key, escaped

\* the flashcard table, the current date, and the last call of
\* update_flashcard_sm2 with its outcome
VARIABLES cards, today, last

\* the configured environment of the agents (the Anthropic credential, the
\* retrieval backend) and the last direct call of an agent action
VARIABLES anthropic_key, retrieval, acall

\* the /ws/agent handler: its position, the connection, how many events of
\* the run it took and passed to send_json, and what the client received
VARIABLES ws, connected, handled, delivered

\* a second run, suspended while the first one steps, and which of the
\* two runs the run variables hold
VARIABLES other, cur

\* the ChromaDB collections by name, and the last call of a RAGSystem
\* method with its outcome
VARIABLES collections, rag

\* the text an LLM sent to an agent, and what the agent's parsing made of it
VARIABLES llm_reply, parsed

\* the state of one orchestrator run
runvars == <<pc, events, llm, plan, i, invoked, inflight, user_id, api_key, escaped>>

\* the state of the review scheduler
sm2vars == <<cards, today, last>>

\* the state of the agents called on their own
agentvars == <<anthropic_key, retrieval, acall>>

\* the state of the reply parsing
parsevars == <<llm_reply, parsed>>

\* the state of the websocket handler
wsvars == <<ws, connected, handled, delivered>>

\* the suspended run of a pair of runs
pairvars == <<other, cur>>

\* the state of the retrieval store
ragvars == <<collections, rag>>

\* what a call of a RAGSystem method leaves alone
ragothers == <<runvars, sm2vars, agentvars, wsvars, pairvars, parsevars>>

\* what the parsing of a reply leaves alone
parseothers == <<runvars, sm2vars, agentvars, wsvars, pairvars, ragvars>>

\* what a step of the orchestrator run leaves alone
others == <<sm2vars, agentvars, wsvars, pairvars, ragvars, parsevars>>

\* what a call of the review scheduler leaves alone
sm2others == <<runvars, agentvars, wsvars, pairvars, ragvars, parsevars>>

\* what a direct call of an agent action leaves alone
agentothers ==
    <<pc, events, llm, plan, i, invoked, inflight, user_id, escaped, sm2vars, wsvars,
      pairvars, ragvars, parsevars>>

\* what a step of the websocket handler itself leaves alone
wsothers == <<runvars, sm2vars, agentvars, pairvars, ragvars, parsevars>>

vars == <<runvars, sm2vars, agentvars, wsvars, pairvars, ragvars, parsevars>>

(* ------------------------------ bounds --------------------------------- *)

\* longest task list of a run that shares the event loop with another run
PairMaxSteps == 1

\* longest task list the plan-decomposition reply may hold
MaxSteps == 3

\* most digits of a bare-number reply
MaxDigits == 4

(* --------------------------- values and text --------------------------- *)

\* Python's None / a key that is absent from a JSON object
Absent == "<absent>"

\* str(x) inside an f-string: None prints as "None"
Str(x) == IF x = Absent THEN "None" ELSE x

UserIds == {"1", "2"}

\* values an agent action may return (the decoded LLM reply, opaque)
Results == {"r1", "r2"}

EmptyDict == [k \in {} |-> ""]

NoParams == [tag |-> "absent", d |-> EmptyDict]
NullParams == [tag |-> "null", d |-> EmptyDict]
DictParams(d) == [tag |-> "dict", d |-> d]

\* a JSON object that is a plan step; a key the object lacks is Absent
Task(agent, action, params) ==
    [dict |-> TRUE, agent |-> agent, action |-> action, params |-> params]

\* a plan element that is not a JSON object (here: a JSON string)
StrItem == [dict |-> FALSE, agent |-> Absent, action |-> Absent, params |-> NoParams]

\* The step objects the decomposition reply is built from.  Each is written
\* in the reply text as one token standing for its object literal.
TaskOf ==
    [t \in {"T1", "T2", "T3", "T4", "T5", "T6", "T7", "T8"} |->
       CASE t = "T1" -> Task("teacher", "generate_lesson",
                             DictParams([k \in {"topic_name"} |-> "v"]))
         [] t = "T2" -> Task("teacher", "generate_lesson",
                             DictParams([k \in {"topic_name", "user_id"} |->
                                            IF k = "user_id" THEN "9" ELSE "v"]))
         [] t = "T3" -> Task("planner", "generate_plan",
                             DictParams([k \in {"topics", "exam_type", "exam_date",
                                                "hours_per_day"} |-> "v"]))
         [] t = "T4" -> Task("coach", "generate_lesson", NoParams)
         [] t = "T5" -> Task("teacher", "explain", NoParams)
         [] t = "T6" -> Task("quizgen", "__class__", NoParams)
         [] t = "T7" -> Task("teacher", Absent, NoParams)
         [] t = "T8" -> Task("teacher", "generate_lesson", NullParams)]

TaskTokens == DOMAIN TaskOf

Whitespace == {"\n", " "}
Digits == {"7"}

RECURSIVE LStrip(_)
LStrip(s) == IF s # <<>> /\ Head(s) \in Whitespace THEN LStrip(Tail(s)) ELSE s

RECURSIVE RStrip(_)
RStrip(s) ==
    IF s # <<>> /\ s[Len(s)] \in Whitespace THEN RStrip(SubSeq(s, 1, Len(s) - 1)) ELSE s

\* str.strip()
Strip(s) == LStrip(RStrip(s))

\* str.startswith(p)
StartsWith(s, p) == Len(s) >= Len(p) /\ SubSeq(s, 1, Len(p)) = p

\* s[a:-b] for b > 0
Slice(s, a, b) == SubSeq(s, a + 1, Len(s) - b)

\* one character of text: the backquote
Bq == "bq"

FenceJson == <<Bq, Bq, Bq, "j", "s", "o", "n">>
Fence == <<Bq, Bq, Bq>>

\* orchestrator.py:83-87
StripFence(text) ==
    LET response_text == Strip(text)
    IN  IF StartsWith(response_text, FenceJson) THEN Strip(Slice(response_text, 7, 3))
        ELSE IF StartsWith(response_text, Fence) THEN Strip(Slice(response_text, 3, 3))
        ELSE response_text

ListPlan(items) == [kind |-> "list", items |-> items]
ObjectPlan == [kind |-> "object", items |-> <<StrItem>>]
NumberPlan == [kind |-> "number", items |-> <<>>]
NoPlan == [kind |-> "none", items |-> <<>>]

\* the elements of "[" tok "," tok ... "]" without the brackets
RECURSIVE Elements(_)
Elements(s) ==
    IF s = <<>> THEN [ok |-> TRUE, items |-> <<>>]
    ELSE IF Head(s) \notin TaskTokens THEN [ok |-> FALSE, items |-> <<>>]
    ELSE IF Len(s) = 1 THEN [ok |-> TRUE, items |-> <<TaskOf[Head(s)]>>]
    ELSE IF s[2] # "," \/ Len(s) = 2 THEN [ok |-> FALSE, items |-> <<>>]
    ELSE LET rest == Elements(SubSeq(s, 3, Len(s)))
         IN  [ok |-> rest.ok, items |-> <<TaskOf[Head(s)]>> \o rest.items]

\* json.loads: an array of step objects, an object, or a number decodes;
\* anything else raises
JsonLoads(s) ==
    IF s = <<>> THEN [ok |-> FALSE, value |-> NoPlan]
    ELSE IF \A n \in 1..Len(s) : s[n] \in Digits THEN [ok |-> TRUE, value |-> NumberPlan]
    ELSE IF s = <<"{", "K", "}">> THEN [ok |-> TRUE, value |-> ObjectPlan]
    ELSE IF Len(s) >= 2 /\ s[1] = "[" /\ s[Len(s)] = "]"
         THEN LET el == Elements(SubSeq(s, 2, Len(s) - 1))
              IN  [ok |-> el.ok, value |-> IF el.ok THEN ListPlan(el.items) ELSE NoPlan]
    ELSE [ok |-> FALSE, value |-> NoPlan]

\* tok "," tok ... : the text between the brackets of a JSON array
RECURSIVE Join(_)
Join(toks) ==
    IF toks = <<>> THEN <<>>
    ELSE IF Len(toks) = 1 THEN toks
    ELSE <<Head(toks), ",">> \o Join(Tail(toks))

TokenSeqs == UNION {[1..n -> TaskTokens] : n \in 0..MaxSteps}

\* the JSON documents the model lets the LLM write
Docs ==
    {<<"[">> \o Join(toks) \o <<"]">> : toks \in TokenSeqs}
      \cup {[n \in 1..d |-> "7"] : d \in 1..MaxDigits}
      \cup {<<"{", "K", "}">>, <<"S", "o", "r", "r", "y">>}

\* the reply texts: a document bare, fenced with or without a language
\* tag, or with an opening fence only
Replies ==
    UNION {{doc,
            <<" ">> \o FenceJson \o <<"\n">> \o doc \o <<"\n">> \o Fence \o <<"\n">>,
            Fence \o <<"\n">> \o doc \o <<"\n">> \o Fence,
            FenceJson \o <<"\n">> \o doc} : doc \in Docs}

(* ------------------------------ agents --------------------------------- *)

\* orchestrator.py:33-38
Agents == {"planner", "teacher", "quizgen", "evaluator"}

\* PlannerAgent: its coroutine methods and their declared parameters
PlannerMethods ==
    [m \in {"generate_plan"} |-> {"topics", "exam_type", "exam_date", "hours_per_day"}]

\* TeacherAgent
TeacherMethods == [m \in {"generate_lesson"} |-> {"topic_name", "user_id"}]

\* QuizGenAgent
QuizGenMethods ==
    [m \in {"generate_questions", "generate_mock_exam"} |->
       IF m = "generate_questions"
       THEN {"topic_name", "difficulty", "count", "user_id"}
       ELSE {"exam_type", "duration", "total_marks", "topics", "user_id"}]

\* EvaluatorAgent
EvaluatorMethods == [m \in {"grade_submission"} |-> {"questions", "answers"}]

\* self.agents, orchestrator.py:33-38
Declared ==
    [a \in Agents |->
       CASE a = "planner" -> PlannerMethods
         [] a = "teacher" -> TeacherMethods
         [] a = "quizgen" -> QuizGenMethods
         [] a = "evaluator" -> EvaluatorMethods]

\* attributes every agent object has that are not coroutine functions
PlainAttributes == {"__class__", "__init__", "__doc__"}

\* getattr(agent, action, None) classified as the test of line 114 sees it
GetAttr(agent, action) ==
    IF action \in DOMAIN Declared[agent] THEN "coroutine"
    ELSE IF action \in PlainAttributes THEN "plain"
    ELSE "none"

\* method and asyncio.iscoroutinefunction(method), orchestrator.py:114
IsAsyncMethod(agent, action) == GetAttr(agent, action) = "coroutine"

\* method(**params): the keyword arguments bind iff they are exactly the
\* declared parameters (no method has defaults or **kwargs)
Binds(agent, action, kwargs) == DOMAIN kwargs = Declared[agent][action]

(* ------------------------------ events --------------------------------- *)

\* AgentEvent(type, data); step is data["step"] of a result and the step
\* number printed in the text of a step thought or a step error, else 0
Event(type, text, step, result, p) ==
    [type |-> type, text |-> text, step |-> step, result |-> result, plan |-> p]

Emit(e) == events' = Append(events, e)

(* -------------------------- review scheduler --------------------------- *)

\* Easiness factors are floats in the code; the model counts them in
\* hundredths.  The float error of the code's sums is far below one
\* hundredth and shows only where interval * easinessFactor is a decimal
\* tie, which RoundChoices leaves open.

\* most successful reviews in a row the model follows
MaxRepetition == 4

\* largest easiness factor (in hundredths) the model follows
MaxEasiness == 270

\* last day the model's calendar reaches
MaxDay == 1

\* largest interval of a flashcard state drawn by AnyInit
MaxAnyInterval == 6

\* Flashcard.easinessFactor default 2.5
DefaultEasiness == 250

\* the floor 1.3 of sm2.py:33-34
MinEasiness == 130

\* users of the platform: the reviewing caller and another card owner
Caller == 1
Stranger == 2

\* flashcard ids the reviews name; no card has the id MissingId
CardIds == {1, 2}
MissingId == 3

\* the quality arguments the model passes
Qualities == -1..6

\* Flashcard(...) as created: repetition 0, easinessFactor 2.5, interval 1,
\* nextReviewDate the day of creation
NewCard(owner, now) ==
    [userId |-> owner, repetition |-> 0, easinessFactor |-> DefaultEasiness,
     interval |-> 1, nextReviewDate |-> now]

\* stands for "no flashcard" in the record of a call
NoCard ==
    [userId |-> 0, repetition |-> 0, easinessFactor |-> 0, interval |-> 0,
     nextReviewDate |-> 0]

NoCall ==
    [status |-> "none", id |-> 0, quality |-> 0, user |-> 0, now |-> 0,
     before |-> NoCard]

\* the lower limit of the quality left out
QualityValid_Loose(quality) == quality <= 5

\* sm2.py:9
QualityValid(quality) == 0 <= quality /\ quality <= 5

\* the quadratic term left out
EasinessDelta_Linear(quality) == 10 - (5 - quality) * 8

\* sm2.py:32: 0.1 - (5 - quality) * (0.08 + (5 - quality) * 0.02), in hundredths
EasinessDelta(quality) == 10 - (5 - quality) * (8 + (5 - quality) * 2)

\* the easiness factor without its floor
NewEasiness_NoFloor(easinessFactor, quality) == easinessFactor + EasinessDelta(quality)

\* sm2.py:32-35
NewEasiness(easinessFactor, quality) ==
    LET easiness_factor == easinessFactor + EasinessDelta(quality)
    IN  IF easiness_factor < MinEasiness THEN MinEasiness ELSE easiness_factor

\* round(n / 100) for n >= 0: the nearest integer; on a decimal tie the
\* float product decides, so either neighbour
RoundChoices(n) ==
    LET q == n \div 100
        r == n % 100
    IN  IF r < 50 THEN {q} ELSE IF r > 50 THEN {q + 1} ELSE {q, q + 1}

\* the interval divided by the easiness factor
NewIntervals_Divide(card) ==
    IF card.repetition = 0 THEN {1}
    ELSE IF card.repetition = 1 THEN {6}
    ELSE RoundChoices((card.interval * 10000) \div card.easinessFactor)

\* the first review not told apart: repetition 0 takes the product too
NewIntervals_NoFirst(card) ==
    IF card.repetition = 1 THEN {6}
    ELSE RoundChoices(card.interval * card.easinessFactor)

\* the second review not told apart: repetition 1 takes the product
NewIntervals_NoSix(card) ==
    IF card.repetition = 0 THEN {1}
    ELSE RoundChoices(card.interval * card.easinessFactor)

\* sm2.py:22-27
NewIntervals(card) ==
    IF card.repetition = 0 THEN {1}
    ELSE IF card.repetition = 1 THEN {6}
    ELSE RoundChoices(card.interval * card.easinessFactor)

\* sm2.py:38
NextReviewDate(now, interval) == now + interval

\* a forgotten card that keeps its interval
Forgotten_KeepInterval(card, now) ==
    [card EXCEPT !.repetition = 0,
                 !.nextReviewDate = NextReviewDate(now, card.interval)]

\* sm2.py:16-19, 38
Forgotten(card, now) ==
    [card EXCEPT !.repetition = 0, !.interval = 1,
                 !.nextReviewDate = NextReviewDate(now, 1)]

\* the review date taken from the interval held before the review
Recalled_StaleDate(card, quality, now) ==
    {[card EXCEPT !.interval = iv,
                  !.repetition = card.repetition + 1,
                  !.easinessFactor = NewEasiness(card.easinessFactor, quality),
                  !.nextReviewDate = NextReviewDate(now, card.interval)] :
       iv \in NewIntervals(card)}

\* the easiness factor updated before the interval is computed
Recalled_EaseFirst(card, quality, now) ==
    {[card EXCEPT !.interval = iv,
                  !.repetition = card.repetition + 1,
                  !.easinessFactor = NewEasiness(card.easinessFactor, quality),
                  !.nextReviewDate = NextReviewDate(now, iv)] :
       iv \in NewIntervals([card EXCEPT !.easinessFactor =
                                          NewEasiness(card.easinessFactor, quality)])}

\* sm2.py:20-35, 38
Recalled(card, quality, now) ==
    {[card EXCEPT !.interval = iv,
                  !.repetition = card.repetition + 1,
                  !.easinessFactor = NewEasiness(card.easinessFactor, quality),
                  !.nextReviewDate = NextReviewDate(now, iv)] :
       iv \in NewIntervals(card)}

\* sm2.py:16-38: the flashcards a review may leave
Reviewed(card, quality, now) ==
    IF quality < 3 THEN {Forgotten(card, now)} ELSE Recalled(card, quality, now)

\* the owner of the flashcard not compared with the caller
Found_AnyOwner(id, user) == id \in DOMAIN cards

\* session.get(Flashcard, flashcard_id) finds the caller's flashcard, sm2.py:12-13
Found(id, user) == id \in DOMAIN cards /\ cards[id].userId = user

TheCall(status, id, quality, user) ==
    [status |-> status, id |-> id, quality |-> quality, user |-> user, now |-> today,
     before |-> IF id \in DOMAIN cards THEN cards[id] ELSE NoCard]

\* the model follows a recalled review only up to its bounds
WithinBounds(card, quality) ==
    quality >= 3 =>
      /\ card.repetition < MaxRepetition
      /\ card.easinessFactor + EasinessDelta(quality) <= MaxEasiness

\* sm2.py:9-10: raise ValueError("Quality must be between 0 and 5.")
Sm2InvalidQuality ==
    /\ \E id \in CardIds \cup {MissingId}, quality \in Qualities :
         /\ ~QualityValid(quality)
         /\ last' = TheCall("invalid_quality", id, quality, Caller)
    /\ UNCHANGED <<cards, today>>
    /\ UNCHANGED sm2others

\* sm2.py:12-14: raise ValueError("Flashcard not found")
Sm2NotFound ==
    /\ \E id \in CardIds \cup {MissingId}, quality \in Qualities :
         /\ QualityValid(quality)
         /\ ~Found(id, Caller)
         /\ last' = TheCall("not_found", id, quality, Caller)
    /\ UNCHANGED <<cards, today>>
    /\ UNCHANGED sm2others

\* sm2.py:16-44: the review is applied and committed
Sm2Review ==
    /\ \E id \in CardIds, quality \in Qualities :
         /\ QualityValid(quality)
         /\ Found(id, Caller)
         /\ WithinBounds(cards[id], quality)
         /\ \E card \in Reviewed(cards[id], quality, today) :
              cards' = [cards EXCEPT ![id] = card]
         /\ last' = TheCall("ok", id, quality, Caller)
    /\ UNCHANGED today
    /\ UNCHANGED sm2others

\* datetime.utcnow().date() moves on
NextDay ==
    /\ today < MaxDay
    /\ today' = today + 1
    /\ UNCHANGED <<cards, last>>
    /\ UNCHANGED sm2others

\* the flashcard table with one new card of the caller and one of another user
Sm2Idle ==
    /\ cards = [id \in CardIds |-> NewCard(IF id = 1 THEN Caller ELSE Stranger, 0)]
    /\ today = 0
    /\ last = NoCall

(* --------------------- the agents called on their own ------------------ *)

\* the context a failed retrieval leaves in TeacherAgent, teacher.py:34
NoContext == "No document context available."

\* the context when the rag module could not be imported, teacher.py:36
NotInstalled == "No document context available (RAG system not installed)."

NoAgentCall ==
    [agent |-> "", action |-> "", status |-> "none", value |-> "", context |-> ""]

ACall(agent, action, outcome, context) ==
    [agent |-> agent, action |-> action, status |-> outcome.status,
     value |-> outcome.value, context |-> context]

Out(status, value) == [status |-> status, value |-> value]

\* RAGSystem(user_id).query(...): the text of the user's chunks, or nothing
Retrieved == {"<docs>", ""}

\* the prompt is sent, the reply is decoded by json.loads: a value, a
\* decoding error, or the provider's failure
Live ==
    {Out("returned", r) : r \in Results}
      \cup {Out("raised", "JSONDecodeError"), Out("raised", "ProviderUnavailable")}

\* services/anthropic.py:14-15, then the request
Anthropic ==
    IF ~anthropic_key
    THEN {Out("raised", "ValueError: ANTHROPIC_API_KEY environment variable not set.")}
    ELSE Live

\* the `if not GEMINI_API_KEY: return {...}` of teacher, planner, placement
GeminiOrMock == IF ~api_key THEN {Out("mock", "mock")} ELSE Live

\* RAGSystem(...) or query raises
RetrievalError == Out("raised", "RuntimeError: retrieval unavailable")

\* teacher.py:24-79
CallGenerateLesson ==
    /\ \E context \in (IF retrieval = "up" THEN Retrieved ELSE {NoContext, NotInstalled}),
          o \in GeminiOrMock :
         acall' = ACall("teacher", "generate_lesson", o, context)
    /\ UNCHANGED <<api_key, anthropic_key, retrieval>>
    /\ UNCHANGED agentothers

\* planner.py:15-61
CallGeneratePlan ==
    /\ \E o \in GeminiOrMock : acall' = ACall("planner", "generate_plan", o, "")
    /\ UNCHANGED <<api_key, anthropic_key, retrieval>>
    /\ UNCHANGED agentothers

\* quizgen.py:11-45 and 47-88: retrieval is not guarded
CallQuizGen ==
    /\ \E action \in {"generate_questions", "generate_mock_exam"} :
         IF retrieval = "down"
         THEN acall' = ACall("quizgen", action, RetrievalError, "")
         ELSE \E context \in Retrieved, o \in Anthropic :
                acall' = ACall("quizgen", action, o, context)
    /\ UNCHANGED <<api_key, anthropic_key, retrieval>>
    /\ UNCHANGED agentothers

\* evaluator.py:10-43
CallGradeSubmission ==
    /\ \E o \in Anthropic : acall' = ACall("evaluator", "grade_submission", o, "")
    /\ UNCHANGED <<api_key, anthropic_key, retrieval>>
    /\ UNCHANGED agentothers

\* placement.py:14-72
CallGenerateInterviewPrep ==
    /\ \E o \in GeminiOrMock : acall' = ACall("placement", "generate_interview_prep", o, "")
    /\ UNCHANGED <<api_key, anthropic_key, retrieval>>
    /\ UNCHANGED agentothers

\* MockLLM.generate_content and parse_llm_output, agents.py:26-40, 130-146:
\* the mock topic only for a prompt holding "GENERATE TOPIC", else the text
\* "This is a mock response.", which does not parse
MockTopic ==
    {Out("mock", "mock"), Out("raised", "ValueError: No valid JSON found in the LLM output.")}

\* agents.py:156-166: retrieval is not guarded
CallGenerateTopic ==
    /\ IF retrieval = "down"
       THEN acall' = ACall("topic_generator", "generate_topic", RetrievalError, "")
       ELSE \E context \in Retrieved, o \in (IF ~api_key THEN MockTopic ELSE Live) :
              acall' = ACall("topic_generator", "generate_topic", o, context)
    /\ UNCHANGED <<api_key, anthropic_key, retrieval>>
    /\ UNCHANGED agentothers

\* no agent has been called; any configuration of the environment
AgentsIdle ==
    /\ anthropic_key = FALSE
    /\ retrieval = "up"
    /\ acall = NoAgentCall

(* --------------------------- retrieval store --------------------------- *)

\* most texts of one add_documents call
MaxTexts == 1

\* n_results of RAGSystem.query, rag.py:96
DefaultNResults == 5

\* the user_id values a RAGSystem is built with: the strings "1" and "2"
\* (main.py:329, the agents) and the integer 1 of the ingestion (written i1)
RagUsers == {"1", "2", "i1"}

\* the user a user_id value stands for
UserOf(u) == IF u = "2" THEN 2 ELSE 1

\* rag.py:56: f"user_{user_id}_documents" prints 1 and "1" alike
CollectionName(u) == <<"user_", IF u = "i1" THEN "1" ELSE u, "_documents">>

CollectionNames == {CollectionName(u) : u \in RagUsers}

ChunkTexts == {"a", "b"}
QueryTexts == {"qa", "qb"}
Sources == {"s"}

\* ids of add_document calls; add_documents builds f"{source}_{i}"
DocumentIds == {<<"d", 0>>}

\* an id that no call adds
AbsentId == <<"x", 0>>

\* the closeness of a stored text to a query text under the embedding
Similarity(q, t) == IF (q = "qa") = (t = "a") THEN 2 ELSE 1

Chunk(id, text, u) == [id |-> id, text |-> text, user_id |-> u]

Has(coll, id) == \E c \in coll : c.id = id

NoRagCall ==
    [op |-> "none", user |-> "", id |-> <<"", 0>>, query |-> "", n |-> 0, status |-> "none",
     found |-> FALSE, hits |-> <<>>, context |-> <<>>]

\* collection.add of one document: an id the collection holds already is not
\* replaced; the add is dropped or DuplicateIDError raised, by the version
\* of the library
CollectionAdd(coll, chunk) ==
    IF Has(coll, chunk.id)
    THEN {[ok |-> TRUE, coll |-> coll], [ok |-> FALSE, coll |-> coll]}
    ELSE {[ok |-> TRUE, coll |-> coll \cup {chunk}]}

\* rag.py:70-82
RagAddDocument ==
    /\ \E u \in RagUsers, id \in DocumentIds, text \in ChunkTexts :
         \E o \in CollectionAdd(collections[CollectionName(u)], Chunk(id, text, u)) :
           /\ collections' = [collections EXCEPT ![CollectionName(u)] = o.coll]
           /\ rag' = [NoRagCall EXCEPT !.op = "add_document", !.user = u, !.id = id,
                                       !.status = IF o.ok THEN "ok" ELSE "raised"]
    /\ UNCHANGED ragothers

\* rag.py:87-94: the loop of add_documents from index k on; it ends at the
\* first add that raises
RECURSIVE AddFrom(_, _, _, _, _, _)
AddFrom(coll, texts, k, u, source, strict) ==
    IF k > Len(texts) THEN [ok |-> TRUE, coll |-> coll]
    ELSE IF Has(coll, <<source, k - 1>>)
    THEN IF strict THEN [ok |-> FALSE, coll |-> coll]
         ELSE AddFrom(coll, texts, k + 1, u, source, strict)
    ELSE AddFrom(coll \cup {Chunk(<<source, k - 1>>, texts[k], u)},
                 texts, k + 1, u, source, strict)

\* rag.py:84-94
RagAddDocuments ==
    /\ \E u \in RagUsers, source \in Sources, n \in 0..MaxTexts, strict \in BOOLEAN :
         \E texts \in [1..n -> ChunkTexts] :
           LET o == AddFrom(collections[CollectionName(u)], texts, 1, u, source, strict)
           IN  /\ collections' = [collections EXCEPT ![CollectionName(u)] = o.coll]
               /\ rag' = [NoRagCall EXCEPT !.op = "add_documents", !.user = u, !.n = n,
                                           !.status = IF o.ok THEN "ok" ELSE "raised"]
    /\ UNCHANGED ragothers

\* every chunk of every collection
Candidates_Everything(u) == UNION {collections[name] : name \in CollectionNames}

\* rag.py:56, 98-102: the chunks of the user's collection that pass the
\* filter where={"user_id": self.user_id}
Candidates(u) == {c \in collections[CollectionName(u)] : c.user_id = u}

Min(a, b) == IF a < b THEN a ELSE b

\* n of the chunks in any order
Rankings_Unranked(cands, q, n) ==
    {hits \in [1..Min(n, Cardinality(cands)) -> cands] :
       \A j, k \in DOMAIN hits : j # k => hits[j] # hits[k]}

\* collection.query: the n closest chunks, the closest first; equally close
\* chunks in any order
Rankings(cands, q, n) ==
    {hits \in [1..Min(n, Cardinality(cands)) -> cands] :
       /\ \A j, k \in DOMAIN hits : j # k => hits[j] # hits[k]
       /\ \A j, k \in DOMAIN hits :
            j < k => Similarity(q, hits[j].text) >= Similarity(q, hits[k].text)
       /\ \A c \in cands :
            (\A k \in DOMAIN hits : hits[k] # c) =>
              \A k \in DOMAIN hits : Similarity(q, hits[k].text) >= Similarity(q, c.text)}

\* rag.py:105: "\n---\n".join(doc for doc in results["documents"][0])
RECURSIVE Context(_)
Context(hits) ==
    IF hits = <<>> THEN <<>>
    ELSE IF Len(hits) = 1 THEN <<hits[1].text>>
    ELSE <<hits[1].text, "\n---\n">> \o Context(Tail(hits))

\* rag.py:96-107
RagQuery ==
    /\ \E u \in RagUsers, q \in QueryTexts, n \in {1, DefaultNResults} :
         \E hits \in Rankings(Candidates(u), q, n) :
           rag' = [NoRagCall EXCEPT !.op = "query", !.user = u, !.query = q, !.n = n,
                                    !.status = "ok", !.hits = hits,
                                    !.context = Context(hits)]
    /\ UNCHANGED collections
    /\ UNCHANGED ragothers

\* a backend that raises for an id it does not hold
CollectionDelete_Strict(coll, id) ==
    [ok |-> Has(coll, id), coll |-> {c \in coll : c.id # id}]

\* collection.delete(ids=[document_id]): an id the collection does not hold
\* is passed over
CollectionDelete(coll, id) == [ok |-> TRUE, coll |-> {c \in coll : c.id # id}]

\* rag.py:109-112
RagDeleteDocument ==
    /\ \E u \in RagUsers, id \in DocumentIds \cup {<<"s", 0>>, AbsentId} :
         LET o == CollectionDelete(collections[CollectionName(u)], id)
         IN  /\ collections' = [collections EXCEPT ![CollectionName(u)] = o.coll]
             /\ rag' = [NoRagCall EXCEPT !.op = "delete_document", !.user = u, !.id = id,
                                         !.found = Has(collections[CollectionName(u)], id),
                                         !.status = IF o.ok THEN "ok" ELSE "raised"]
    /\ UNCHANGED ragothers

\* no collection holds a chunk
RagIdle ==
    /\ collections = [name \in CollectionNames |-> {}]
    /\ rag = NoRagCall

(* ---------------------------- reply parsing ---------------------------- *)

\* the ways the model lets the LLM write a document: bare; inside a fence
\* with the json tag, on lines of its own; the same with blanks around;
\* inside a fence without a tag; inside a tagged fence on one line; after an
\* opening fence that is never closed
Forms == {"bare", "tagged", "padded", "untagged", "inline", "unclosed"}

Wrap(doc, form) ==
    CASE form = "bare" -> doc
      [] form = "tagged" -> FenceJson \o <<"\n">> \o doc \o <<"\n">> \o Fence
      [] form = "padded" ->
           <<" ">> \o FenceJson \o <<"\n">> \o doc \o <<"\n">> \o Fence \o <<"\n">>
      [] form = "untagged" -> Fence \o <<"\n">> \o doc \o <<"\n">> \o Fence
      [] form = "inline" -> FenceJson \o doc \o Fence
      [] form = "unclosed" -> FenceJson \o <<"\n">> \o doc

\* json.loads(text): blanks around the document are skipped
Loads(text) == JsonLoads(Strip(text))

\* the text at position p on is q
At(text, p, q) == p + Len(q) - 1 <= Len(text) /\ SubSeq(text, p, p + Len(q) - 1) = q

\* agents.py:137: re.search of the pattern ```json, newline, (.*), newline,
\* ``` with re.DOTALL: the leftmost opening, the last closing
Search(text) ==
    LET open == FenceJson \o <<"\n">>
        close == <<"\n">> \o Fence
        starts == {p \in DOMAIN text :
                     /\ At(text, p, open)
                     /\ \E e \in DOMAIN text : e >= p + Len(open) /\ At(text, e, close)}
    IN  IF starts = {} THEN [found |-> FALSE, group |-> <<>>]
        ELSE LET p == CHOOSE x \in starts : \A y \in starts : x <= y
                 ends == {e \in DOMAIN text : e >= p + Len(open) /\ At(text, e, close)}
                 e == CHOOSE x \in ends : \A y \in ends : x >= y
             IN  [found |-> TRUE, group |-> SubSeq(text, p + Len(open), e - 1)]

\* agents.py:130-146
parse_llm_output(text) ==
    LET direct == Loads(text)
        match == Search(text)
    IN  IF direct.ok THEN [status |-> "returned", value |-> direct.value]
        ELSE IF match.found
        THEN IF Loads(match.group).ok
             THEN [status |-> "returned", value |-> Loads(match.group).value]
             ELSE [status |-> "raised", value |-> NoPlan]
        ELSE [status |-> "raised", value |-> NoPlan]

\* teacher.py:72-79, planner.py:54-61: the fence cut off by position
strip_and_load(text) ==
    LET decoded == JsonLoads(StripFence(text))
    IN  IF decoded.ok THEN [status |-> "returned", value |-> decoded.value]
        ELSE [status |-> "raised", value |-> NoPlan]

\* quizgen.py:45, evaluator.py:43: json.loads of the reply as it came
load_only(text) ==
    IF Loads(text).ok THEN [status |-> "returned", value |-> Loads(text).value]
    ELSE [status |-> "raised", value |-> NoPlan]

NotParsed == [agent |-> "", parser |-> "", status |-> "none", value |-> NoPlan]

Parsed(agent, parser, o) ==
    [agent |-> agent, parser |-> parser, status |-> o.status, value |-> o.value]

\* TopicGenerator.generate_topic, agents.py:165-166
ParseTopic ==
    /\ parsed' = Parsed("topic_generator", "parse_llm_output",
                        parse_llm_output(Wrap(llm_reply.doc, llm_reply.form)))
    /\ UNCHANGED llm_reply
    /\ UNCHANGED parseothers

\* TeacherAgent.generate_lesson, teacher.py:72-79
ParseLesson ==
    /\ parsed' = Parsed("teacher", "strip_and_load",
                        strip_and_load(Wrap(llm_reply.doc, llm_reply.form)))
    /\ UNCHANGED llm_reply
    /\ UNCHANGED parseothers

\* PlannerAgent.generate_plan, planner.py:54-61
ParsePlan ==
    /\ parsed' = Parsed("planner", "strip_and_load",
                        strip_and_load(Wrap(llm_reply.doc, llm_reply.form)))
    /\ UNCHANGED llm_reply
    /\ UNCHANGED parseothers

\* QuizGenAgent.generate_questions, quizgen.py:39-45
ParseQuestions ==
    /\ parsed' = Parsed("quizgen", "load_only", load_only(Wrap(llm_reply.doc, llm_reply.form)))
    /\ UNCHANGED llm_reply
    /\ UNCHANGED parseothers

\* no reply is being parsed
ParseIdle ==
    /\ llm_reply = [doc |-> <<>>, form |-> "bare"]
    /\ parsed = NotParsed

(* ------------------------ the websocket handler ------------------------ *)

\* the state of a run that has not started, orchestrator.py:31-38
IdleRun(u) ==
    [pc |-> "start", events |-> <<>>, llm |-> [status |-> "none", text |-> <<>>],
     plan |-> NoPlan, i |-> -1, invoked |-> <<>>, inflight |-> {}, user_id |-> u,
     escaped |-> ""]

\* a goal the client sends: none, or some text
Goals == {"", "goal"}

\* the two messages the handler sends itself, main.py:340 and 353-356
NoGoalMessage == Event("error", <<"No goal provided">>, 0, "", NoPlan)

HandlerError(e) == Event("error", <<"An error occurred: ", e>>, 0, "", NoPlan)

\* main.py:337-344: the goal is received; without one the handler answers
\* and returns, else it builds the orchestrator and starts to iterate
WsReceive ==
    /\ ws = "receive"
    /\ connected
    /\ \E goal \in Goals :
         IF goal = ""
         THEN /\ ws' = "closed"
              /\ delivered' = Append(delivered, NoGoalMessage)
         ELSE /\ ws' = "stream"
              /\ UNCHANGED delivered
    /\ UNCHANGED <<connected, handled>>
    /\ UNCHANGED wsothers

\* main.py:337, 350: receive_json raises WebSocketDisconnect
WsReceiveFails ==
    /\ ws = "receive"
    /\ ~connected
    /\ ws' = "disconnected"
    /\ UNCHANGED <<connected, handled, delivered>>
    /\ UNCHANGED wsothers

\* the handler awaits the next event: only then does the generator run
CanResume ==
    /\ ws = "stream"
    /\ handled = Len(events)
    /\ pc \notin {"returned", "raised"}

\* main.py:347-348: the event the generator yielded is sent
WsSend ==
    /\ ws = "stream"
    /\ handled < Len(events)
    /\ connected
    /\ handled' = handled + 1
    /\ delivered' = Append(delivered, events[handled + 1])
    /\ UNCHANGED <<ws, connected>>
    /\ UNCHANGED wsothers

\* a handler that ignores the failed send and goes on iterating
WsSendFails_KeepGoing ==
    /\ ws = "stream"
    /\ handled < Len(events)
    /\ ~connected
    /\ handled' = handled + 1
    /\ UNCHANGED <<ws, connected, delivered>>
    /\ UNCHANGED wsothers

\* main.py:348-358: send_json raises on the closed connection; the loop is
\* left through an except clause (whose own send fails and is swallowed)
\* and the generator is not resumed again
WsSendFails ==
    /\ ws = "stream"
    /\ handled < Len(events)
    /\ ~connected
    /\ handled' = handled + 1
    /\ ws' = "disconnected"
    /\ UNCHANGED <<connected, delivered>>
    /\ UNCHANGED wsothers

\* main.py:347: the generator is exhausted, the handler returns
WsExhausted ==
    /\ ws = "stream"
    /\ pc = "returned"
    /\ handled = Len(events)
    /\ ws' = "closed"
    /\ UNCHANGED <<connected, handled, delivered>>
    /\ UNCHANGED wsothers

\* main.py:351-358: an exception of the run reaches the handler, which
\* reports it if the client is still there
WsRunRaised ==
    /\ ws = "stream"
    /\ pc = "raised"
    /\ handled = Len(events)
    /\ ws' = "failed"
    /\ delivered' = IF connected THEN Append(delivered, HandlerError(escaped))
                                 ELSE delivered
    /\ UNCHANGED <<connected, handled>>
    /\ UNCHANGED wsothers

\* the client goes away, at any moment
ClientDisconnect ==
    /\ ws \in {"receive", "stream"}
    /\ connected
    /\ connected' = FALSE
    /\ UNCHANGED <<ws, handled, delivered>>
    /\ UNCHANGED wsothers

\* no websocket is open
WsIdle ==
    /\ ws = "idle"
    /\ connected = TRUE
    /\ handled = 0
    /\ delivered = <<>>

\* there is no second run
PairIdle ==
    /\ other = IdleRun("2")
    /\ cur = 1

(* ------------------------------ the run -------------------------------- *)

Init ==
    /\ pc = "start"
    /\ events = <<>>
    /\ llm = [status |-> "none", text |-> <<>>]
    /\ plan = NoPlan
    /\ i = -1
    /\ invoked = <<>>
    /\ inflight = {}
    /\ user_id \in UserIds
    /\ api_key \in BOOLEAN
    /\ escaped = ""
    /\ Sm2Idle
    /\ AgentsIdle
    /\ WsIdle
    /\ PairIdle
    /\ RagIdle
    /\ ParseIdle

\* orchestrator.py:42
Start ==
    /\ pc = "start"
    /\ Emit(Event("thought", <<"Interpreting your goal...">>, 0, "", NoPlan))
    /\ pc' = "yield_interpreting"
    /\ UNCHANGED <<llm, plan, i, invoked, inflight, user_id, api_key, escaped>>
    /\ UNCHANGED others

\* orchestrator.py:44-48
NoKey ==
    /\ pc = "yield_interpreting"
    /\ ~api_key
    /\ Emit(Event("error",
                  <<"GEMINI_API_KEY not configured. Cannot orchestrate agents.">>,
                  0, "", NoPlan))
    /\ pc' = "yield_fatal_error"
    /\ UNCHANGED <<llm, plan, i, invoked, inflight, user_id, api_key, escaped>>
    /\ UNCHANGED others

\* the return statement left out: control falls through to line 97
ReturnAfterError_FallThrough ==
    /\ pc = "yield_fatal_error"
    /\ pc' = "yield_plan"
    /\ UNCHANGED <<events, llm, plan, i, invoked, inflight, user_id, api_key, escaped>>
    /\ UNCHANGED others

\* orchestrator.py:49 and 95: return after the error event
ReturnAfterError ==
    /\ pc = "yield_fatal_error"
    /\ pc' = "returned"
    /\ UNCHANGED <<events, llm, plan, i, invoked, inflight, user_id, api_key, escaped>>
    /\ UNCHANGED others

\* orchestrator.py:78-80: await model.generate_content_async(prompt)
CallLLM ==
    /\ pc = "yield_interpreting"
    /\ api_key
    /\ pc' = "await_llm"
    /\ UNCHANGED <<events, llm, plan, i, invoked, inflight, user_id, api_key, escaped>>
    /\ UNCHANGED others

PlanError(e) ==
    Event("error", <<"Sorry, I couldn't create a plan. Error: ", e>>, 0, "", NoPlan)

\* orchestrator.py:80, 90-94: the LLM call raises
LLMRaises ==
    /\ pc = "await_llm"
    /\ llm' = [status |-> "raised", text |-> <<>>]
    /\ Emit(PlanError("ProviderUnavailable"))
    /\ pc' = "yield_fatal_error"
    /\ UNCHANGED <<plan, i, invoked, inflight, user_id, api_key, escaped>>
    /\ UNCHANGED others

\* orchestrator.py:83-97: the LLM replies with one of the given texts;
\* strip the fence, decode, yield the plan event or the error event
LLMRepliesFrom(replies) ==
    /\ pc = "await_llm"
    /\ \E reply \in replies :
         LET response_text == StripFence(reply)
             decoded == JsonLoads(response_text)
         IN  /\ llm' = [status |-> "replied", text |-> response_text]
             /\ IF decoded.ok
                THEN /\ plan' = decoded.value
                     /\ Emit(Event("plan", <<>>, 0, "", decoded.value))
                     /\ pc' = "yield_plan"
                ELSE /\ plan' = plan
                     /\ Emit(PlanError("JSONDecodeError"))
                     /\ pc' = "yield_fatal_error"
    /\ UNCHANGED <<i, invoked, inflight, user_id, api_key, escaped>>
    /\ UNCHANGED others

LLMReplies == LLMRepliesFrom(Replies)

\* the generator is resumed at the head of the for loop of line 100
AtLoopHead == pc \in {"yield_plan", "yield_soft_error", "yield_result"}

\* the loop has a next task
HasNext == plan.kind # "number" /\ i + 1 < Len(plan.items)

\* the task the loop takes next
NextTask == plan.items[i + 2]

\* the task of the current iteration
CurTask == plan.items[i + 1]

\* task.get("params", {}), orchestrator.py:103
GetParams(task) ==
    IF task.params.tag = "absent" THEN DictParams(EmptyDict) ELSE task.params

\* orchestrator.py:100: enumerate(plan) raises on a plan that is not iterable
EnumerateRaises ==
    /\ pc = "yield_plan"
    /\ plan.kind = "number"
    /\ escaped' = "TypeError: 'int' object is not iterable"
    /\ pc' = "raised"
    /\ UNCHANGED <<events, llm, plan, i, invoked, inflight, user_id, api_key>>
    /\ UNCHANGED others

\* orchestrator.py:100, 145: the loop is exhausted
LoopExit ==
    /\ AtLoopHead
    /\ plan.kind # "number"
    /\ i + 1 = Len(plan.items)
    /\ Emit(Event("done", <<"All tasks completed!">>, 0, "", NoPlan))
    /\ pc' = "yield_done"
    /\ UNCHANGED <<llm, plan, i, invoked, inflight, user_id, api_key, escaped>>
    /\ UNCHANGED others

\* orchestrator.py:101: task.get on an element that is not an object
TaskGetRaises ==
    /\ AtLoopHead
    /\ HasNext
    /\ ~NextTask.dict
    /\ i' = i + 1
    /\ escaped' = "AttributeError: 'str' object has no attribute 'get'"
    /\ pc' = "raised"
    /\ UNCHANGED <<events, llm, plan, invoked, inflight, user_id, api_key>>
    /\ UNCHANGED others

\* an unknown agent treated as a hard error: break instead of continue
UnknownAgent_Fatal ==
    /\ AtLoopHead
    /\ HasNext
    /\ NextTask.dict
    /\ NextTask.agent \notin Agents
    /\ i' = i + 1
    /\ Emit(Event("error", <<"Unknown agent: ", Str(NextTask.agent)>>, 0, "", NoPlan))
    /\ pc' = "yield_hard_error"
    /\ UNCHANGED <<llm, plan, invoked, inflight, user_id, api_key, escaped>>
    /\ UNCHANGED others

\* orchestrator.py:105-109
UnknownAgent ==
    /\ AtLoopHead
    /\ HasNext
    /\ NextTask.dict
    /\ NextTask.agent \notin Agents
    /\ i' = i + 1
    /\ Emit(Event("error", <<"Unknown agent: ", Str(NextTask.agent)>>, 0, "", NoPlan))
    /\ pc' = "yield_soft_error"
    /\ UNCHANGED <<llm, plan, invoked, inflight, user_id, api_key, escaped>>
    /\ UNCHANGED others

\* orchestrator.py:112: getattr(agent, None, None) raises TypeError
GetAttrRaises ==
    /\ AtLoopHead
    /\ HasNext
    /\ NextTask.dict
    /\ NextTask.agent \in Agents
    /\ NextTask.action = Absent
    /\ i' = i + 1
    /\ escaped' = "TypeError: attribute name must be string, not 'NoneType'"
    /\ pc' = "raised"
    /\ UNCHANGED <<events, llm, plan, invoked, inflight, user_id, api_key>>
    /\ UNCHANGED others

\* orchestrator.py:114-119
UnknownAction ==
    /\ AtLoopHead
    /\ HasNext
    /\ NextTask.dict
    /\ NextTask.agent \in Agents
    /\ NextTask.action # Absent
    /\ ~IsAsyncMethod(NextTask.agent, NextTask.action)
    /\ i' = i + 1
    /\ Emit(Event("error", <<"Unknown or non-async action: ", NextTask.action>>,
                  0, "", NoPlan))
    /\ pc' = "yield_soft_error"
    /\ UNCHANGED <<llm, plan, invoked, inflight, user_id, api_key, escaped>>
    /\ UNCHANGED others

\* repr of the params in the step thought
ParamsRepr(params) == IF params.tag = "null" THEN "None" ELSE ToString(params.d)

\* orchestrator.py:121-126
StepThought ==
    /\ AtLoopHead
    /\ HasNext
    /\ NextTask.dict
    /\ NextTask.agent \in Agents
    /\ NextTask.action # Absent
    /\ IsAsyncMethod(NextTask.agent, NextTask.action)
    /\ i' = i + 1
    /\ Emit(Event("thought",
                  <<"Step ", ToString(i + 2), ": Executing ", NextTask.agent, ".",
                    NextTask.action, " with params: ",
                    ParamsRepr(GetParams(NextTask))>>,
                  i + 2, "", NoPlan))
    /\ pc' = "yield_step_thought"
    /\ UNCHANGED <<llm, plan, invoked, inflight, user_id, api_key, escaped>>
    /\ UNCHANGED others

StepError(task, e) ==
    Event("error",
          <<"Error in step ", ToString(i + 1), " (", task.agent, ".", task.action,
            "): ", e>>,
          i + 1, "", NoPlan)

\* user_id assigned unconditionally
Inject_Overwrite(d) ==
    [k \in DOMAIN d \cup {"user_id"} |-> IF k = "user_id" THEN user_id ELSE d[k]]

\* user_id kept in a module-level name that the orchestrator built last
\* has overwritten
Inject_Shared(d) ==
    IF "user_id" \in DOMAIN d THEN d
    ELSE [k \in DOMAIN d \cup {"user_id"} |->
            IF k = "user_id" THEN other.user_id ELSE d[k]]

\* orchestrator.py:130-131: params with user_id added if not present
Inject(d) ==
    IF "user_id" \in DOMAIN d THEN d
    ELSE [k \in DOMAIN d \cup {"user_id"} |-> IF k = "user_id" THEN user_id ELSE d[k]]

\* one call of an agent method by line 133
Call(task, kwargs, outcome, value) ==
    [step |-> i + 1, agent |-> task.agent, action |-> task.action,
     kwargs |-> kwargs, outcome |-> outcome, value |-> value]

\* orchestrator.py:130, 135-143: `"user_id" not in params` raises on null
\* params; the except clause turns it into the step error
NullParamsRaises ==
    /\ pc = "yield_step_thought"
    /\ GetParams(CurTask).tag = "null"
    /\ Emit(StepError(CurTask, "argument of type 'NoneType' is not iterable"))
    /\ pc' = "yield_hard_error"
    /\ UNCHANGED <<llm, plan, i, invoked, inflight, user_id, api_key, escaped>>
    /\ UNCHANGED others

\* the plan with the params object of the current task replaced: line 131
\* writes into the dict that the plan holds
WithParams(d) ==
    IF CurTask.params.tag = "absent" THEN plan
    ELSE [plan EXCEPT !.items[i + 1].params = DictParams(d)]

\* orchestrator.py:130-133, 135-143: the call does not bind its keyword
\* arguments and raises TypeError at once
CallRejected ==
    /\ pc = "yield_step_thought"
    /\ GetParams(CurTask).tag = "dict"
    /\ LET kwargs == Inject(GetParams(CurTask).d)
       IN  /\ ~Binds(CurTask.agent, CurTask.action, kwargs)
           /\ plan' = WithParams(kwargs)
           /\ invoked' = Append(invoked, Call(CurTask, kwargs, "raised", "TypeError"))
           /\ Emit(StepError(CurTask, "got an unexpected keyword argument"))
    /\ pc' = "yield_hard_error"
    /\ UNCHANGED <<llm, i, inflight, user_id, api_key, escaped>>
    /\ UNCHANGED others

\* the call scheduled as a task and not awaited: the loop goes on
Invoke_NoAwait ==
    /\ pc = "yield_step_thought"
    /\ GetParams(CurTask).tag = "dict"
    /\ LET kwargs == Inject(GetParams(CurTask).d)
       IN  /\ Binds(CurTask.agent, CurTask.action, kwargs)
           /\ plan' = WithParams(kwargs)
           /\ invoked' = Append(invoked, Call(CurTask, kwargs, "pending", ""))
    /\ inflight' = inflight \cup {i + 1}
    /\ pc' = "yield_result"
    /\ UNCHANGED <<events, llm, i, user_id, api_key, escaped>>
    /\ UNCHANGED others

\* orchestrator.py:130-133: the call is made and the generator awaits it
Invoke ==
    /\ pc = "yield_step_thought"
    /\ GetParams(CurTask).tag = "dict"
    /\ LET kwargs == Inject(GetParams(CurTask).d)
       IN  /\ Binds(CurTask.agent, CurTask.action, kwargs)
           /\ plan' = WithParams(kwargs)
           /\ invoked' = Append(invoked, Call(CurTask, kwargs, "pending", ""))
    /\ inflight' = inflight \cup {i + 1}
    /\ pc' = "await_method"
    /\ UNCHANGED <<events, llm, i, user_id, api_key, escaped>>
    /\ UNCHANGED others

\* the last call with its outcome filled in
Resolved(outcome, value) ==
    [invoked EXCEPT ![Len(invoked)].outcome = outcome, ![Len(invoked)].value = value]

\* the result event numbered with the 0-based loop index
MethodReturns_StepOff ==
    /\ pc = "await_method"
    /\ \E r \in Results :
         /\ invoked' = Resolved("returned", r)
         /\ Emit(Event("result", <<>>, i, r, NoPlan))
    /\ inflight' = inflight \ {i + 1}
    /\ pc' = "yield_result"
    /\ UNCHANGED <<llm, plan, i, user_id, api_key, escaped>>
    /\ UNCHANGED others

\* orchestrator.py:133-134: the awaited action returns
MethodReturns ==
    /\ pc = "await_method"
    /\ \E r \in Results :
         /\ invoked' = Resolved("returned", r)
         /\ Emit(Event("result", <<>>, i + 1, r, NoPlan))
    /\ inflight' = inflight \ {i + 1}
    /\ pc' = "yield_result"
    /\ UNCHANGED <<llm, plan, i, user_id, api_key, escaped>>
    /\ UNCHANGED others

\* the except clause without its break: the loop goes on
MethodRaises_Swallow ==
    /\ pc = "await_method"
    /\ \E e \in {"MalformedAgentOutput", "ProviderUnavailable"} :
         /\ invoked' = Resolved("raised", e)
         /\ Emit(StepError(CurTask, e))
    /\ inflight' = inflight \ {i + 1}
    /\ pc' = "yield_soft_error"
    /\ UNCHANGED <<llm, plan, i, user_id, api_key, escaped>>
    /\ UNCHANGED others

\* orchestrator.py:133, 135-143: the awaited action raises
MethodRaises ==
    /\ pc = "await_method"
    /\ \E e \in {"MalformedAgentOutput", "ProviderUnavailable"} :
         /\ invoked' = Resolved("raised", e)
         /\ Emit(StepError(CurTask, e))
    /\ inflight' = inflight \ {i + 1}
    /\ pc' = "yield_hard_error"
    /\ UNCHANGED <<llm, plan, i, user_id, api_key, escaped>>
    /\ UNCHANGED others

\* no break: the loop is resumed after the step error
Break_Continue ==
    /\ pc = "yield_hard_error"
    /\ pc' = "yield_soft_error"
    /\ UNCHANGED <<events, llm, plan, i, invoked, inflight, user_id, api_key, escaped>>
    /\ UNCHANGED others

\* orchestrator.py:143-145: break, then the done event
Break ==
    /\ pc = "yield_hard_error"
    /\ Emit(Event("done", <<"All tasks completed!">>, 0, "", NoPlan))
    /\ pc' = "yield_done"
    /\ UNCHANGED <<llm, plan, i, invoked, inflight, user_id, api_key, escaped>>
    /\ UNCHANGED others

\* the generator ends after the done event
Finish ==
    /\ pc = "yield_done"
    /\ pc' = "returned"
    /\ UNCHANGED <<events, llm, plan, i, invoked, inflight, user_id, api_key, escaped>>
    /\ UNCHANGED others

Next ==
    \/ Start
    \/ NoKey
    \/ ReturnAfterError
    \/ CallLLM
    \/ LLMRaises
    \/ LLMReplies
    \/ EnumerateRaises
    \/ LoopExit
    \/ TaskGetRaises
    \/ UnknownAgent
    \/ GetAttrRaises
    \/ UnknownAction
    \/ StepThought
    \/ NullParamsRaises
    \/ CallRejected
    \/ Invoke
    \/ MethodReturns
    \/ MethodRaises
    \/ Break
    \/ Finish

Spec == Init /\ [][Next]_vars

\* no orchestrator run is under way
RunIdle ==
    /\ pc = "start"
    /\ events = <<>>
    /\ llm = [status |-> "none", text |-> <<>>]
    /\ plan = NoPlan
    /\ i = -1
    /\ invoked = <<>>
    /\ inflight = {}
    /\ user_id = "1"
    /\ api_key = FALSE
    /\ escaped = ""

Sm2Init == RunIdle /\ Sm2Idle /\ AgentsIdle /\ WsIdle /\ PairIdle /\ RagIdle /\ ParseIdle

Sm2Next ==
    \/ Sm2InvalidQuality
    \/ Sm2NotFound
    \/ Sm2Review
    \/ NextDay

\* reviews of flashcards that start as new cards
SpecSm2 == Sm2Init /\ [][Sm2Next]_vars

\* easiness factors of the flashcard states AnyInit draws
AnyEasiness == {MinEasiness, 136, DefaultEasiness, 265}

\* the caller's flashcard in any state of the bounded sets
AnyInit ==
    /\ RunIdle
    /\ \E rep \in 0..(MaxRepetition - 1), ef \in AnyEasiness, iv \in 1..MaxAnyInterval :
         cards = [id \in CardIds |->
                    IF id = 1
                    THEN [userId |-> Caller, repetition |-> rep, easinessFactor |-> ef,
                          interval |-> iv, nextReviewDate |-> 0]
                    ELSE NewCard(Stranger, 0)]
    /\ today = 0
    /\ last = NoCall
    /\ AgentsIdle
    /\ WsIdle
    /\ PairIdle
    /\ RagIdle
    /\ ParseIdle

\* reviews of a flashcard in any state
SpecSm2Any == AnyInit /\ [][Sm2Next]_vars

\* any configuration of the credentials and of the retrieval backend
AgentsInit ==
    /\ pc = "start"
    /\ events = <<>>
    /\ llm = [status |-> "none", text |-> <<>>]
    /\ plan = NoPlan
    /\ i = -1
    /\ invoked = <<>>
    /\ inflight = {}
    /\ user_id = "1"
    /\ escaped = ""
    /\ Sm2Idle
    /\ api_key \in BOOLEAN
    /\ anthropic_key \in BOOLEAN
    /\ retrieval \in {"up", "down"}
    /\ acall = NoAgentCall
    /\ WsIdle
    /\ PairIdle
    /\ RagIdle
    /\ ParseIdle

AgentsNext ==
    \/ CallGenerateLesson
    \/ CallGeneratePlan
    \/ CallQuizGen
    \/ CallGradeSubmission
    \/ CallGenerateInterviewPrep
    \/ CallGenerateTopic

\* agent actions called on their own, as the HTTP endpoints call them
SpecAgents == AgentsInit /\ [][AgentsNext]_vars

\* main.py:325-329: the connection is accepted, the user is the fixed "1"
WsInit ==
    /\ pc = "start"
    /\ events = <<>>
    /\ llm = [status |-> "none", text |-> <<>>]
    /\ plan = NoPlan
    /\ i = -1
    /\ invoked = <<>>
    /\ inflight = {}
    /\ user_id = "1"
    /\ api_key \in BOOLEAN
    /\ escaped = ""
    /\ Sm2Idle
    /\ AgentsIdle
    /\ PairIdle
    /\ RagIdle
    /\ ParseIdle
    /\ ws = "receive"
    /\ connected = TRUE
    /\ handled = 0
    /\ delivered = <<>>

\* the generator runs only while the handler awaits its next event
WsResume == CanResume /\ Next

WsNext ==
    \/ WsReceive
    \/ WsReceiveFails
    \/ WsResume
    \/ WsSend
    \/ WsSendFails
    \/ WsExhausted
    \/ WsRunRaised
    \/ ClientDisconnect

\* a run streamed over /ws/agent to a client that may go away
SpecWs == WsInit /\ [][WsNext]_vars

\* the run that holds the run variables: its locals and its attributes
CurRun ==
    [pc |-> pc, events |-> events, llm |-> llm, plan |-> plan, i |-> i,
     invoked |-> invoked, inflight |-> inflight, user_id |-> user_id,
     escaped |-> escaped]

\* a second orchestrator for another user is built on the same event loop
PairInit ==
    /\ pc = "start"
    /\ events = <<>>
    /\ llm = [status |-> "none", text |-> <<>>]
    /\ plan = NoPlan
    /\ i = -1
    /\ invoked = <<>>
    /\ inflight = {}
    /\ user_id = "1"
    /\ api_key \in BOOLEAN
    /\ escaped = ""
    /\ Sm2Idle
    /\ AgentsIdle
    /\ WsIdle
    /\ RagIdle
    /\ ParseIdle
    /\ other = IdleRun("2")
    /\ cur = 1

\* the tasks of the replies to a pair of runs: a lesson for the run's own
\* user, a lesson for a user the plan names, an unknown agent, null params
PairTokens == {"T1", "T2", "T4", "T8"}

\* the reply is a list of at most PairMaxSteps of these tasks, or a text
\* that is no longer than such a list
ShortReply(text) ==
    /\ Len(text) <= 2 * PairMaxSteps + 1
    /\ \A n \in DOMAIN text : text[n] \in TaskTokens => text[n] \in PairTokens

PairReplies == {reply \in Replies : ShortReply(StripFence(reply))}

\* a step of the run that holds the run variables
PairStep ==
    \/ pc # "await_llm" /\ Next
    \/ LLMRaises
    \/ LLMRepliesFrom(PairReplies)

\* the event loop suspends the running generator at its yield or await and
\* resumes the other one
Switch ==
    /\ other.pc \notin {"returned", "raised"}
    /\ other' = CurRun
    /\ cur' = 3 - cur
    /\ pc' = other.pc
    /\ events' = other.events
    /\ llm' = other.llm
    /\ plan' = other.plan
    /\ i' = other.i
    /\ invoked' = other.invoked
    /\ inflight' = other.inflight
    /\ user_id' = other.user_id
    /\ escaped' = other.escaped
    /\ UNCHANGED <<api_key, sm2vars, agentvars, wsvars, ragvars, parsevars>>

PairNext == PairStep \/ Switch

\* two runs for different users, their steps interleaved in any order
SpecPair == PairInit /\ [][PairNext]_vars

RagInit ==
    RunIdle /\ Sm2Idle /\ AgentsIdle /\ WsIdle /\ PairIdle /\ RagIdle /\ ParseIdle

RagNext ==
    \/ RagAddDocument
    \/ RagAddDocuments
    \/ RagQuery
    \/ RagDeleteDocument

\* any sequence of RAGSystem calls by any of the users
SpecRag == RagInit /\ [][RagNext]_vars

\* the LLM has written some document in some form
ParseInit ==
    /\ RunIdle /\ Sm2Idle /\ AgentsIdle /\ WsIdle /\ PairIdle /\ RagIdle
    /\ llm_reply \in [doc : Docs, form : Forms]
    /\ parsed = NotParsed

ParseNext ==
    \/ ParseTopic
    \/ ParseLesson
    \/ ParsePlan
    \/ ParseQuestions

\* the agents parse the reply of the LLM
SpecParse == ParseInit /\ [][ParseNext]_vars

(* ------------------------------ claims --------------------------------- *)

Types == [n \in DOMAIN events |-> events[n].type]

\* the task list as json.loads returned it, before line 131 wrote into it
Decoded == JsonLoads(llm.text)

PlanDecoded == llm.status = "replied" /\ Decoded.ok

Contains(text, tok) == \E n \in DOMAIN text : text[n] = tok

IsStepTask(task) ==
    task.dict /\ task.agent \in Agents /\ task.action # Absent
      /\ IsAsyncMethod(task.agent, task.action)

\* C1: every run ends its event stream with a done event, emitted exactly
\* once, on every path to termination (missing credential, decomposition
\* failure, hard step error, all steps processed).
C1_EndsWithDone ==
    pc = "returned" =>
      /\ events # <<>>
      /\ events[Len(events)].type = "done"
      /\ Cardinality({n \in DOMAIN events : events[n].type = "done"}) = 1

\* a 3-step plan of registered agents and async actions whose first step
\* returned and whose second step did not
ThreeStepSecondRaises ==
    /\ pc = "returned"
    /\ plan.kind = "list"
    /\ Len(plan.items) = 3
    /\ \A n \in 1..3 : IsStepTask(plan.items[n])
    /\ \E c \in DOMAIN invoked : invoked[c].step = 1 /\ invoked[c].outcome = "returned"
    /\ ~\E c \in DOMAIN invoked : invoked[c].step = 2 /\ invoked[c].outcome = "returned"

\* C2: for a 3-step plan of registered agents and async actions where step
\* 1 succeeds and step 2 raises, the run emits exactly thought, plan,
\* thought, result(1), thought, error(2), done and nothing for step 3.
C2_ThreeStepSequence ==
    ThreeStepSecondRaises =>
      /\ Types = <<"thought", "plan", "thought", "result", "thought", "error", "done">>
      /\ events[3].step = 1 /\ events[4].step = 1
      /\ events[5].step = 2 /\ events[6].step = 2
      /\ \A n \in DOMAIN events : events[n].step # 3
      /\ \A c \in DOMAIN invoked : invoked[c].step # 3

C2_Witness ==
    /\ ThreeStepSecondRaises
    /\ Len(events) = 7
    /\ invoked[Len(invoked)].outcome = "raised"

\* C3: when the invoked action of step k raises, one error event for step k
\* is emitted, no later agent action is invoked, and the only event after
\* that error is done.
C3_HardErrorAborts ==
    \A c \in DOMAIN invoked :
      invoked[c].outcome = "raised" =>
        /\ c = Len(invoked)
        /\ inflight = {}
        /\ \E m \in DOMAIN events :
             /\ events[m].type = "error"
             /\ events[m].step = invoked[c].step
             /\ \A m2 \in DOMAIN events :
                  /\ (m2 # m /\ events[m2].type = "error") => events[m2].step = 0 /\ m2 < m
                  /\ m2 > m => events[m2].type = "done" /\ m2 = m + 1
                  /\ events[m2].step <= invoked[c].step

C3_Witness ==
    /\ pc = "returned"
    /\ \E c \in DOMAIN invoked :
         /\ invoked[c].outcome = "raised"
         /\ invoked[c].value = "ProviderUnavailable"
         /\ invoked[c].step < Len(plan.items)
    /\ events[Len(events)].type = "done"

\* the loop is about to take a task whose agent is not registered
AtUnknownAgent == AtLoopHead /\ HasNext /\ NextTask.dict /\ NextTask.agent \notin Agents

\* C4: a plan step whose agent is not registered yields exactly one error
\* event whose text contains the agent name, invokes no agent, and does not
\* abort the run: the loop goes on with the step after it.
C4_UnknownAgentSoft ==
    [][AtUnknownAgent =>
         /\ Len(events') = Len(events) + 1
         /\ SubSeq(events', 1, Len(events)) = events
         /\ events'[Len(events')].type = "error"
         /\ Contains(events'[Len(events')].text, Str(NextTask.agent))
         /\ invoked' = invoked
         /\ inflight' = inflight
         /\ escaped' = ""
         /\ i' = i + 1
         /\ AtLoopHead']_vars

C4_Witness ==
    /\ pc = "returned"
    /\ \E m, n \in DOMAIN events :
         /\ m < n
         /\ events[m].type = "error"
         /\ Contains(events[m].text, "coach")
         /\ events[n].type = "result"

\* the loop is about to take a task of a registered agent whose action is
\* absent, unknown or not a coroutine function
AtBadAction ==
    /\ AtLoopHead /\ HasNext /\ NextTask.dict /\ NextTask.agent \in Agents
    /\ (NextTask.action = Absent \/ ~IsAsyncMethod(NextTask.agent, NextTask.action))

\* C5: a step of a registered agent whose action is unknown, not a
\* coroutine or absent yields one error event and the run goes on with the
\* next step; it never aborts the run and never escapes as an exception.
C5_BadActionSoft ==
    [][AtBadAction =>
         /\ Len(events') = Len(events) + 1
         /\ events'[Len(events')].type = "error"
         /\ invoked' = invoked
         /\ escaped' = ""
         /\ i' = i + 1
         /\ AtLoopHead']_vars

\* plan decomposition failed: the LLM call raised or its stripped reply
\* does not decode
DecompositionFailed ==
    llm.status = "raised" \/ (llm.status = "replied" /\ ~Decoded.ok)

\* C6: when plan decomposition fails the run emits an error event, no
\* plan, result or step thought event, and invokes no agent.
C6_DecompositionFailure ==
    DecompositionFailed =>
      /\ Types = <<"thought", "error">>
      /\ events[1].step = 0
      /\ invoked = <<>>
      /\ inflight = {}
      /\ pc \in {"yield_fatal_error", "returned"}

C6_Witness ==
    /\ llm.status = "replied"
    /\ llm.text # <<>>
    /\ ~Decoded.ok
    /\ pc = "returned"

\* C7: once a plan has been decoded no exception propagates out of run;
\* whatever a step raises becomes an error event.
C7_NoEscape == PlanDecoded => (pc # "raised" /\ escaped = "")

\* C8: in a run that decodes a plan the plan event is emitted once, as the
\* second event, and carries the decoded task list; step events appear in
\* plan order; a result carries its step index and the value the action
\* returned, and directly follows the thought of the same step.
C8_PlanAndResults ==
    PlanDecoded =>
      /\ Len(events) >= 2
      /\ events[2].type = "plan"
      /\ events[2].plan = Decoded.value
      /\ \A n \in DOMAIN events :
           /\ events[n].type = "plan" => n = 2
           /\ events[n].step > 0 => n > 2
           /\ \A m \in DOMAIN events :
                (m < n /\ events[m].step > 0 /\ events[n].step > 0)
                  => events[m].step <= events[n].step
           /\ events[n].type = "result" =>
                /\ events[n - 1].type = "thought"
                /\ events[n - 1].step = events[n].step
                /\ events[n].step \in 1..Len(plan.items)
                /\ \E c \in DOMAIN invoked :
                     /\ invoked[c].step = events[n].step
                     /\ invoked[c].outcome = "returned"
                     /\ invoked[c].value = events[n].result
                     /\ invoked[c].agent = Decoded.value.items[events[n].step].agent
                     /\ invoked[c].action = Decoded.value.items[events[n].step].action

C8_Witness ==
    /\ pc = "returned"
    /\ \E m, n \in DOMAIN events :
         /\ events[m].type = "result" /\ events[m].step = 1 /\ events[m].result = "r2"
         /\ events[n].type = "result" /\ events[n].step = 3 /\ events[n].result = "r1"

\* C9: the call of an agent action gets the orchestrator's user_id exactly
\* when the step's params hold no user_id; a user_id of the plan step is
\* passed unchanged, as is every other parameter.
C9_UserIdInjection ==
    \A c \in DOMAIN invoked :
      LET given == GetParams(Decoded.value.items[invoked[c].step]).d
          kwargs == invoked[c].kwargs
      IN  /\ "user_id" \in DOMAIN kwargs
          /\ \A k \in DOMAIN given : k \in DOMAIN kwargs /\ kwargs[k] = given[k]
          /\ DOMAIN kwargs = DOMAIN given \cup {"user_id"}
          /\ "user_id" \notin DOMAIN given => kwargs["user_id"] = user_id

C9_Witness ==
    \E c, d \in DOMAIN invoked :
      /\ invoked[c].kwargs["user_id"] = "9"
      /\ invoked[d].kwargs["user_id"] = user_id

\* C10: at most one agent action is in flight; while the call of step k is
\* unresolved the run has emitted nothing for a later step and invoked
\* nothing after it.
C10_OneInFlight ==
    /\ Cardinality(inflight) <= 1
    /\ \A c \in DOMAIN invoked :
         invoked[c].outcome = "pending" =>
           /\ c = Len(invoked)
           /\ inflight = {invoked[c].step}
           /\ pc = "await_method"
           /\ \A n \in DOMAIN events : events[n].step <= invoked[c].step
           /\ events[Len(events)].type = "thought"
           /\ events[Len(events)].step = invoked[c].step
    /\ \A k \in inflight :
         \E c \in DOMAIN invoked : invoked[c].step = k /\ invoked[c].outcome = "pending"

C10_Witness ==
    /\ inflight = {2}
    /\ \E c \in DOMAIN invoked : invoked[c].step = 1 /\ invoked[c].outcome = "returned"

\* the last call of update_flashcard_sm2 was a committed review
Reviewing == last.status = "ok"

\* the flashcard of the last call as the call left it
After == cards[last.id]

\* C15: update_flashcard_sm2 with a quality outside [0,5] fails with the
\* invalid-quality error and changes no flashcard field and no row of the
\* table.
C15_InvalidQualityRejected ==
    [][(last' # last /\ (last'.quality < 0 \/ last'.quality > 5)) =>
         /\ last'.status = "invalid_quality"
         /\ cards' = cards]_vars

C15_Witness ==
    /\ last.status = "invalid_quality"
    /\ last.quality = 6
    /\ last.id = 1
    /\ cards[1].repetition = 2
    /\ cards[1] = last.before

\* C16: for every flashcard state and every quality in {0,1,2} a review
\* sets repetition to 0, interval to 1 and nextReviewDate to today + 1.
C16_ForgottenResets ==
    (Reviewing /\ last.quality \in {0, 1, 2}) =>
      /\ After.repetition = 0
      /\ After.interval = 1
      /\ After.nextReviewDate = last.now + 1

C16_Witness ==
    /\ Reviewing
    /\ last.quality = 2
    /\ last.before.repetition = 3
    /\ last.before.interval = 5
    /\ last.now = 1

\* C17: for every quality in {3,4,5} and every flashcard with repetition 0,
\* whatever its interval and easiness factor, a review yields interval 1
\* and repetition 1.
C17_FirstRecall ==
    (Reviewing /\ last.quality \in {3, 4, 5} /\ last.before.repetition = 0) =>
      /\ After.interval = 1
      /\ After.repetition = 1

C17_Witness ==
    /\ Reviewing
    /\ last.quality = 3
    /\ last.before.repetition = 0
    /\ last.before.interval = 5
    /\ last.before.easinessFactor = 265

\* the review of the scenario: repetition 1, easiness factor 2.5, interval
\* 6, quality 4
Scenario ==
    /\ Reviewing
    /\ last.quality = 4
    /\ last.before.repetition = 1
    /\ last.before.easinessFactor = 250
    /\ last.before.interval = 6

\* C18 as stated: the scenario yields interval 15, repetition 2 and an
\* easiness factor of about 2.46.
C18_ScenarioAsStated ==
    Scenario =>
      /\ After.interval = 15
      /\ After.repetition = 2
      /\ After.easinessFactor = 246

\* C18: reviewing a flashcard with repetition 1, easiness factor 2.5 and
\* interval 6 at quality 4 yields interval 6 (the second-review case),
\* repetition 2 and the easiness factor 2.5 unchanged.
C18_Scenario ==
    Scenario =>
      /\ After.interval = 6
      /\ After.repetition = 2
      /\ After.easinessFactor = 250

C18_Witness == Scenario /\ After.nextReviewDate = last.now + 6

\* C19: from new flashcards, after any reviews with any qualities, valid
\* or rejected, every flashcard has easinessFactor >= 1.3, repetition >= 0
\* and interval >= 1.
C19_FlashcardInvariant ==
    \A id \in DOMAIN cards :
      /\ cards[id].easinessFactor >= 130
      /\ cards[id].repetition >= 0
      /\ cards[id].interval >= 1

C19_Witness ==
    /\ Reviewing
    /\ last.quality = 3
    /\ last.before.easinessFactor < 144
    /\ After.easinessFactor = 130

\* C20: for quality in {3,4,5}, repetition 1 gives the interval 6, and
\* repetition >= 2 gives interval * easinessFactor rounded to the nearest
\* integer, taken with the easiness factor held before the review; the
\* repetition goes up by exactly 1.
C20_RecalledInterval ==
    (Reviewing /\ last.quality \in {3, 4, 5}) =>
      /\ After.repetition = last.before.repetition + 1
      /\ last.before.repetition = 1 => After.interval = 6
      /\ last.before.repetition >= 2 =>
           LET product == last.before.interval * last.before.easinessFactor
           IN  /\ 100 * After.interval - product <= 50
               /\ product - 100 * After.interval <= 50

C20_Witness ==
    /\ Reviewing
    /\ last.quality = 3
    /\ last.before.repetition = 2
    /\ last.before.interval = 5
    /\ last.before.easinessFactor = 265
    /\ After.interval = 13
    /\ After.easinessFactor = 251

\* C13: with no LLM credential configured every agent action (lesson,
\* plan, questions, grading, interview prep) returns its mock result
\* instead of raising.
C13_MockWithoutCredential ==
    (/\ acall.status # "none"
     /\ ~api_key /\ ~anthropic_key
     /\ acall.action \in {"generate_lesson", "generate_plan", "generate_questions",
                          "grade_submission", "generate_interview_prep"})
      => acall.status = "mock"

\* C14: with the retrieval backend down every agent that uses retrieval
\* goes on with an empty context and completes its request instead of
\* failing on the retrieval error.
C14_DegradesWithoutRetrieval ==
    (/\ acall.status # "none"
     /\ retrieval = "down"
     /\ acall.action \in {"generate_lesson", "generate_questions", "generate_mock_exam",
                          "generate_topic"})
      => /\ acall.value # RetrievalError.value
         /\ acall.context \in {"", NoContext, NotInstalled}

\* a send has failed: the handler has seen that the client is gone
DisconnectObserved == ws # "failed" /\ handled > Len(delivered)

\* C11: once the handler has observed the disconnect the run starts no
\* further agent or LLM invocation, and nothing (no result event in
\* particular) is delivered after the client went away.
C11_StopsOnDisconnect ==
    [][/\ DisconnectObserved =>
            /\ invoked' = invoked
            /\ inflight' = inflight
            /\ llm' = llm
            /\ events' = events
       /\ ~connected => delivered' = delivered]_vars

\* the client left during a step whose result was yielded but not
\* delivered, with further steps of the plan never started
C11_Witness ==
    /\ ws = "disconnected"
    /\ pc = "yield_result"
    /\ plan.kind = "list"
    /\ i + 1 < Len(plan.items)
    /\ Len(invoked) = 1
    /\ events[Len(events)].type = "result"
    /\ \A k \in 1..Len(delivered) : delivered[k].type # "result"

StepErrorAt(k, task, e) ==
    Event("error",
          <<"Error in step ", ToString(k), " (", task.agent, ".", task.action, "): ", e>>,
          k, "", NoPlan)

\* the call that run r made for step k
CallOf(r, k) == r.invoked[CHOOSE c \in DOMAIN r.invoked : r.invoked[c].step = k]

\* the events of step k of task list p in run r, from the task and from
\* the outcome of the run's own call
StepEvents(r, p, k) ==
    LET task == p.items[k]
        thought == Event("thought",
                         <<"Step ", ToString(k), ": Executing ", task.agent, ".",
                           task.action, " with params: ", ParamsRepr(GetParams(task))>>,
                         k, "", NoPlan)
    IN  IF ~task.dict THEN <<>>
        ELSE IF task.agent \notin Agents
        THEN <<Event("error", <<"Unknown agent: ", Str(task.agent)>>, 0, "", NoPlan)>>
        ELSE IF task.action = Absent THEN <<>>
        ELSE IF ~IsAsyncMethod(task.agent, task.action)
        THEN <<Event("error", <<"Unknown or non-async action: ", task.action>>,
                     0, "", NoPlan)>>
        ELSE IF k = r.i + 1 /\ r.pc \in {"yield_step_thought", "await_method"}
        THEN <<thought>>
        ELSE IF GetParams(task).tag = "null"
        THEN <<thought,
               StepErrorAt(k, task, "argument of type 'NoneType' is not iterable")>>
        ELSE LET c == CallOf(r, k)
             IN  IF c.outcome = "returned"
                 THEN <<thought, Event("result", <<>>, k, c.value, NoPlan)>>
                 ELSE IF c.value = "TypeError"
                 THEN <<thought,
                        StepErrorAt(k, task, "got an unexpected keyword argument")>>
                 ELSE <<thought, StepErrorAt(k, task, c.value)>>

RECURSIVE StepsUpTo(_, _, _)
StepsUpTo(r, p, n) ==
    IF n = 0 THEN <<>> ELSE StepsUpTo(r, p, n - 1) \o StepEvents(r, p, n)

\* the event sequence of run r as its own reply, its own task list and the
\* outcomes of its own calls determine it; nothing of another run enters
Alone(r) ==
    LET head == <<Event("thought", <<"Interpreting your goal...">>, 0, "", NoPlan)>>
        dec == JsonLoads(r.llm.text)
        done == IF r.pc \in {"yield_done", "returned"}
                THEN <<Event("done", <<"All tasks completed!">>, 0, "", NoPlan)>>
                ELSE <<>>
    IN  IF r.pc = "start" THEN <<>>
        ELSE IF r.llm.status = "none"
        THEN IF r.pc \in {"yield_interpreting", "await_llm"} THEN head
             ELSE head \o <<Event("error",
                                  <<"GEMINI_API_KEY not configured. Cannot orchestrate agents.">>,
                                  0, "", NoPlan)>>
        ELSE IF r.llm.status = "raised" THEN head \o <<PlanError("ProviderUnavailable")>>
        ELSE IF ~dec.ok THEN head \o <<PlanError("JSONDecodeError")>>
        ELSE head \o <<Event("plan", <<>>, 0, "", dec.value)>>
               \o StepsUpTo(r, dec.value, r.i + 1) \o done

\* every call of run r carries the parameters of r's own task and, where
\* the task names no user, r's own user_id
OwnCalls(r) ==
    \A c \in DOMAIN r.invoked :
      LET given == GetParams(JsonLoads(r.llm.text).value.items[r.invoked[c].step]).d
          kwargs == r.invoked[c].kwargs
      IN  /\ \A k \in DOMAIN given : k \in DOMAIN kwargs /\ kwargs[k] = given[k]
          /\ "user_id" \notin DOMAIN given => kwargs["user_id"] = r.user_id

Independent(r) == r.events = Alone(r) /\ OwnCalls(r)

\* a step belongs to one run and leaves the suspended run as it was, or it
\* is the switch, which changes neither run
OneRunSteps ==
    \/ other' = other /\ cur' = cur
    \/ other' = CurRun /\ CurRun' = other /\ cur' # cur

\* C12: two runs for different users are independent under every
\* interleaving: each run's events are the ones it emits alone for the
\* same reply and call outcomes, and no step of one run reads or writes
\* the other run's user_id, plan, parameters or calls.
C12_Independent ==
    /\ [](Independent(CurRun) /\ Independent(other))
    /\ [][OneRunSteps]_vars

\* both runs have called an agent, each for its own user, the calls
\* interleaved, and both have finished
C12_Witness ==
    /\ pc = "returned"
    /\ other.pc = "returned"
    /\ Len(invoked) = 1
    /\ Len(other.invoked) = 1
    /\ invoked[1].kwargs["user_id"] = user_id
    /\ other.invoked[1].kwargs["user_id"] = other.user_id
    /\ user_id # other.user_id
    /\ events[Len(events) - 1].type = "result"
    /\ other.events[Len(other.events) - 1].type = "error"

\* C21: for quality 3, 4, 5 the easiness factor becomes
\* max(1.3, EF + 0.1 - (5-q)*(0.08 + (5-q)*0.02)): +0.10 at quality 5,
\* unchanged at quality 4, -0.14 at quality 3, and never below 1.3.
C21_EasinessUpdate ==
    (Reviewing /\ last.quality \in {3, 4, 5}) =>
      LET change == CASE last.quality = 5 -> 10
                      [] last.quality = 4 -> 0
                      [] last.quality = 3 -> -14
          raw == last.before.easinessFactor + change
      IN  /\ After.easinessFactor = IF raw < 130 THEN 130 ELSE raw
          /\ After.easinessFactor >= 130

C21_Witness ==
    /\ Reviewing
    /\ last.quality = 4
    /\ last.before.easinessFactor = 265
    /\ After.easinessFactor = 265
    /\ last.before.repetition = 2

\* C22: after every successful review, forgotten or recalled,
\* nextReviewDate is the date of the review plus the interval the review
\* left, not the interval held before it.
C22_NextReviewDate ==
    Reviewing => After.nextReviewDate = last.now + After.interval

C22_Witness ==
    /\ Reviewing
    /\ last.quality = 5
    /\ last.before.repetition = 1
    /\ last.before.interval = 3
    /\ last.now = 1
    /\ After.interval = 6
    /\ After.nextReviewDate = 7

\* C30: from new flashcards, repetition 0 implies interval 1 in every
\* reachable state, and a review with quality >= 3 never leaves an
\* interval smaller than the one before it.
C30_IntervalMonotone ==
    /\ \A id \in DOMAIN cards : cards[id].repetition = 0 => cards[id].interval = 1
    /\ (Reviewing /\ last.quality >= 3) => After.interval >= last.before.interval

C30_Witness ==
    /\ Reviewing
    /\ last.quality = 4
    /\ last.before.repetition = 2
    /\ last.before.interval = 6
    /\ After.interval = 15

\* the step is a call for a flashcard that is missing or not the caller's
ForeignCall ==
    /\ last' # last
    /\ (last'.id \notin DOMAIN cards \/ cards[last'.id].userId # last'.user)

\* a flashcard changes only in a committed review called by its owner
OwnerOnly ==
    \A id \in DOMAIN cards :
      cards'[id] # cards[id] =>
        /\ last'.status = "ok"
        /\ last'.id = id
        /\ last'.user = cards[id].userId

\* C29 as stated: every call for a missing or foreign flashcard fails with
\* "Flashcard not found" and changes no flashcard, and flashcards change
\* only by their owner's calls.
C29_AsStated ==
    [][/\ ForeignCall => (last'.status = "not_found" /\ cards' = cards)
       /\ OwnerOnly]_vars

\* C29: a call with a quality in [0,5] for a missing or foreign flashcard
\* fails with "Flashcard not found"; with a quality outside [0,5] it fails
\* with the quality error, which is checked first.  Either way no flashcard
\* changes, and flashcards change only by their owner's calls.
C29_OwnerOnly ==
    [][/\ ForeignCall =>
            /\ cards' = cards
            /\ last'.status =
                 IF QualityValid(last'.quality) THEN "not_found" ELSE "invalid_quality"
       /\ OwnerOnly]_vars

C29_Witness ==
    /\ last.status = "not_found"
    /\ last.id = 2
    /\ last.quality = 5
    /\ cards[2] = last.before
    /\ cards[2] = NewCard(Stranger, 0)
    /\ cards[1].repetition = 2

\* C23: after any sequence of add_document, add_documents,
\* delete_document and query calls by any users, a query never returns a
\* chunk that was added under another user, for any query text.
C23_Isolation ==
    rag.op = "query" =>
      \A k \in DOMAIN rag.hits : UserOf(rag.hits[k].user_id) = UserOf(rag.user)

\* user 2 asks for "qa" while only user 1 holds the closest text
C23_Witness ==
    /\ rag.op = "query"
    /\ rag.user = "2"
    /\ rag.query = "qa"
    /\ \E c \in collections[CollectionName("1")] : c.text = "a"
    /\ \A c \in collections[CollectionName("2")] : c.text = "b"
    /\ Len(rag.hits) = 1
    /\ rag.context = <<"b">>

\* C24: query returns the texts of at most n_results of the owner's chunks,
\* the most similar first, joined by "\n---\n", and the empty string when the
\* owner has no chunks.
C24_QueryResult ==
    rag.op = "query" =>
      LET hits == rag.hits
          own == collections[CollectionName(rag.user)]
      IN  /\ rag.status = "ok"
          /\ Len(hits) <= rag.n
          /\ \A k \in DOMAIN hits : hits[k] \in own
          /\ \A j, k \in DOMAIN hits : j # k => hits[j] # hits[k]
          /\ \A j, k \in DOMAIN hits :
               j < k => Similarity(rag.query, hits[j].text)
                          >= Similarity(rag.query, hits[k].text)
          /\ Len(rag.context) = IF hits = <<>> THEN 0 ELSE 2 * Len(hits) - 1
          /\ \A k \in DOMAIN hits : rag.context[2 * k - 1] = hits[k].text
          /\ \A k \in 1..(Len(hits) - 1) : rag.context[2 * k] = "\n---\n"
          /\ own = {} => rag.context = <<>>

C24_Witness ==
    /\ rag.op = "query"
    /\ rag.query = "qb"
    /\ rag.n = DefaultNResults
    /\ rag.context = <<"b", "\n---\n", "a">>

\* C25: delete_document of an absent id does not fail and leaves the
\* collections unchanged; a delete leaves the id absent, so that a second
\* delete changes nothing more; chunks with other ids and other
\* collections are unaffected.
C25_DeleteIdempotent ==
    [][(rag' # rag /\ rag'.op = "delete_document") =>
         LET name == CollectionName(rag'.user)
         IN  /\ rag'.status = "ok"
             /\ ~Has(collections[name], rag'.id) => collections' = collections
             /\ ~Has(collections'[name], rag'.id)
             /\ \A c \in collections[name] : c.id # rag'.id => c \in collections'[name]
             /\ collections'[name] \subseteq collections[name]
             /\ \A other_name \in CollectionNames \ {name} :
                  collections'[other_name] = collections[other_name]]_vars

\* an absent id deleted from a collection that holds a chunk
C25_Witness ==
    /\ rag.op = "delete_document"
    /\ rag.id = AbsentId
    /\ ~rag.found
    /\ rag.status = "ok"
    /\ collections[CollectionName(rag.user)] # {}

\* the reply is a valid JSON document inside a leading and a trailing
\* fence, tagged or not, or not fenced at all
WellFormed == JsonLoads(llm_reply.doc).ok /\ llm_reply.form \in {"bare", "tagged", "untagged"}

\* C26: for every valid JSON document wrapped in a leading and a trailing
\* fence, tagged or bare, the agents' reply parser returns the decoded
\* document; unfenced valid JSON is returned unchanged.
C26_FenceStripped ==
    (WellFormed /\ parsed.parser \in {"parse_llm_output", "strip_and_load"}) =>
      /\ parsed.status = "returned"
      /\ parsed.value = JsonLoads(llm_reply.doc).value

\* the keys the prompt of an agent's action requires of the reply
RequiredKeys(agent) ==
    CASE agent = "teacher" -> {"title", "key_concepts", "explanation", "example", "summary"}
      [] agent = "planner" -> {"startDate", "endDate", "weeklyGoal", "blocks"}
      [] agent = "quizgen" -> {"question", "options", "correct_answer", "explanation"}
      [] agent = "topic_generator" -> {"name", "summary", "subtopics"}

\* the keys of a decoded value: of the object, or common to the objects of
\* a list
KeysOf(value) ==
    IF value.kind = "object" THEN {"K"}
    ELSE IF value.kind = "list" /\ value.items # <<>>
              /\ \A n \in DOMAIN value.items : value.items[n].dict
    THEN {"agent", "action", "params"}
    ELSE {}

\* C27: an agent action never returns a structure that lacks a required key
\* of its schema: a reply that does not decode, or decodes to such a
\* structure, makes the action fail.
C27_MalformedRejected ==
    parsed.status = "returned" => RequiredKeys(parsed.agent) \subseteq KeysOf(parsed.value)

\* a step about to be invoked whose params are exactly the declared
\* parameters of its action other than user_id
AtExactParams ==
    /\ pc = "yield_step_thought"
    /\ GetParams(CurTask).tag = "dict"
    /\ DOMAIN GetParams(CurTask).d = Declared[CurTask.agent][CurTask.action] \ {"user_id"}

\* C28: for every registered (agent, action) pair, a step whose params are
\* exactly the action's declared parameters other than user_id is invoked:
\* the injection of user_id never makes the call be rejected, also for the
\* actions that declare no user_id (planner.generate_plan,
\* evaluator.grade_submission).
C28_InjectionAccepted ==
    [][AtExactParams =>
         /\ Len(invoked') = Len(invoked) + 1
         /\ invoked'[Len(invoked')].outcome # "raised"
         /\ pc' # "yield_hard_error"]_vars

====
